---- MODULE Spec2Model ----
(***************************************************************************)
(* A model of the Luanti backend of minecraft_world:                       *)
(*   - HashedCoordinate, the packed 64-bit block address                   *)
(*     (src/src/backend/luanti/map.rs), under CoordSpec;                   *)
(*   - AuthSqlBackend, the in-memory user list reconciled with the auth    *)
(*     and user_privileges tables (src/src/backend/luanti/auth.rs),        *)
(*     under AuthSpec;                                                     *)
(*   - SQLite3MapReader, the block store over table blocks                 *)
(*     (src/src/backend/luanti/map.rs), under MapSpec;                     *)
(*   - deserialize_block_data and MapBlock29, the block payload decoder    *)
(*     (src/src/backend/luanti/block_serialization), under BlockSpec;      *)
(*   - Add and Sub of HashedCoordinate, the wrapping arithmetic on packed  *)
(*     addresses (src/src/backend/luanti/map.rs), under ArithSpec;         *)
(*   - KeyValue, the key=value text parser                                 *)
(*     (src/src/backend/luanti/file_format.rs), under KvSpec;              *)
(*   - AuthTxtBackend, the auth.txt parser                                 *)
(*     (src/src/backend/luanti/auth.rs), under TxtSpec.                    *)
(***************************************************************************)
EXTENDS Integers, Sequences, FiniteSets, TLC

VARIABLES
    \* ---- HashedCoordinate (map.rs) ----
    coord,            \* the (x, y, z) handed to HashedCoordinate::at / Coordinate::from
    hashed,           \* the Result of the encoding
    decoded,          \* the outcome of x(), y(), z() on the encoded value
    cpc,              \* position of the coordinate caller: start, at / from, .._decoded
    \* ---- AuthSqlBackend (auth.rs) ----
    auth,             \* committed rows of table auth
    user_privileges,  \* committed rows of table user_privileges
    seq,              \* sqlite_sequence entry of auth (AUTOINCREMENT)
    foreign_keys,     \* whether the connection enforces foreign keys
    users,            \* AuthSqlBackend.users
    apc,              \* position of the auth caller
    snap,             \* what the caller remembers of the last save
    edits,            \* number of in-memory edits made so far
    \* ---- SQLite3MapReader (map.rs) ----
    blocks,           \* rows of table blocks, in rowid order
    put,              \* per coordinate, the payload of the last successful
                      \* set_block that no remove_block call followed
    mcall,            \* the last call on the reader and its arguments
    mret,             \* what that call returned
    \* ---- block payloads (block_serialization) ----
    payload,          \* the Vec<u8> handed to deserialize_block_data
    mapblock,         \* the outcome of deserialize_block_data
    flags,            \* the four flags read from the decoded block
    bpc,              \* position of the payload caller
    \* ---- Add / Sub for HashedCoordinate (map.rs) ----
    lhs,              \* self.value
    rhs,              \* other.value
    sum,              \* the outcome of the addition or subtraction
    kpc,              \* position of the arithmetic caller
    \* ---- KeyValue (file_format.rs) ----
    text,             \* the text handed to KeyValue::from
    kv,               \* KeyValue.data
    got,              \* the last get and what it returned
    vpc,              \* position of the key/value caller
    \* ---- AuthTxtBackend (auth.rs) ----
    txt,              \* the text handed to AuthTxtBackend::from
    txt_users,        \* AuthTxtBackend.users
    tpc               \* position of the auth.txt caller

coordVars == <<coord, hashed, decoded, cpc>>
authVars == <<auth, user_privileges, seq, foreign_keys, users, apc, snap, edits>>
mapVars == <<blocks, put, mcall, mret>>
blockVars == <<payload, mapblock, flags, bpc>>
arithVars == <<lhs, rhs, sum, kpc>>
kvVars == <<text, kv, got, vpc>>
txtVars == <<txt, txt_users, tpc>>
vars == <<coord, hashed, decoded, cpc,
          auth, user_privileges, seq, foreign_keys, users, apc, snap, edits,
          blocks, put, mcall, mret,
          payload, mapblock, flags, bpc,
          lhs, rhs, sum, kpc,
          text, kv, got, vpc,
          txt, txt_users, tpc>>

(***************************************************************************)
(*                     HashedCoordinate  (map.rs)                          *)
(***************************************************************************)

LIMIT_MIN == -30920
LIMIT_MAX == 30920
LIMIT_MIN_64 == -30920
LIMIT_MAX_64 == 30920

\* TLC's integers are 32 bits wide and an address needs 40, so an i64 is held
\* as its base-4096 limbs: the value is hi * 4096 * 4096 + mid * 4096 + lo with
\* 0 <= mid, lo < 4096 and hi signed. The limbs of a value are unique, so two
\* addresses are equal exactly when their limbs are.
LIMB == 4096

\* i64::from(x) * 16777216i64 + i64::from(y) * 4096i64 + i64::from(z)
Pack(x, y, z) ==
    LET lo == z % LIMB
        c1 == z \div LIMB
        mid == (y + c1) % LIMB
        c2 == (y + c1) \div LIMB
    IN  [hi |-> x + c2, mid |-> mid, lo |-> lo]

Zero64 == [hi |-> 0, mid |-> 0, lo |-> 0]

\* value / 16777216i64: Rust's division truncates toward zero
Div16777216(v) ==
    IF v.hi < 0 /\ (v.mid # 0 \/ v.lo # 0) THEN v.hi + 1 ELSE v.hi

\* value / 4096i64, truncated toward zero
Div4096(v) ==
    IF v.hi < 0 /\ v.lo # 0 THEN v.hi * LIMB + v.mid + 1 ELSE v.hi * LIMB + v.mid

I16_MIN == -32768
I16_MAX == 32767

\* i16::try_from(n).unwrap() of a number n: the value, or a panic when it
\* does not fit.
TryFromI16(n) ==
    IF n >= I16_MIN /\ n <= I16_MAX
    THEN [panic |-> FALSE, value |-> n]
    ELSE [panic |-> TRUE, value |-> 0]

\* i16::try_from(value).unwrap() of a whole i64
TryFromI16Wide(v) ==
    IF v.hi = 0 \/ v.hi = -1
    THEN TryFromI16(v.hi * LIMB * LIMB + v.mid * LIMB + v.lo)
    ELSE [panic |-> TRUE, value |-> 0]

Ok(v) == [ok |-> TRUE, value |-> v]
OutOfBounds == [ok |-> FALSE, value |-> Zero64]

\* A slip of the bounding-box check: the boundary itself is rejected.
HashedAtStrict(x, y, z) ==
    IF \/ x <= LIMIT_MIN \/ x >= LIMIT_MAX
       \/ y <= LIMIT_MIN \/ y >= LIMIT_MAX
       \/ z <= LIMIT_MIN \/ z >= LIMIT_MAX
    THEN OutOfBounds
    ELSE Ok(Pack(x, y, z))

\* HashedCoordinate::at(x, y, z)
HashedAt(x, y, z) ==
    IF \/ x < LIMIT_MIN \/ x > LIMIT_MAX
       \/ y < LIMIT_MIN \/ y > LIMIT_MAX
       \/ z < LIMIT_MIN \/ z > LIMIT_MAX
    THEN OutOfBounds
    ELSE Ok(Pack(x, y, z))

\* <HashedCoordinate as Coordinate>::from(coord), coord's scalars widened to i64
HashedFrom(c) ==
    LET from_x == c[1]
        from_y == c[2]
        from_z == c[3]
    IN  IF \/ from_x < LIMIT_MIN_64 \/ from_x > LIMIT_MAX_64
           \/ from_y < LIMIT_MIN_64 \/ from_y > LIMIT_MAX_64
           \/ from_z < LIMIT_MIN_64 \/ from_z > LIMIT_MAX_64
        THEN OutOfBounds
        ELSE Ok(Pack(from_x, from_y, from_z))

\* the unit constants of the Coordinate trait
Directions == {"up", "down", "left", "right", "forward", "back"}

\* HashedCoordinate::up() .. back(): HashedCoordinate { value: literal }, the
\* literal in limbs
HashedUnit(d) ==
    Pack(0, 0, CASE d = "up" -> 4096
                 [] d = "down" -> -4096
                 [] d = "left" -> -1
                 [] d = "right" -> 1
                 [] d = "forward" -> 16777216
                 [] d = "back" -> -16777216)

\* SpatialCoordinate::up() .. back()
SpatialUnit(d) ==
    CASE d = "up" -> <<0, 1, 0>>
      [] d = "down" -> <<0, -1, 0>>
      [] d = "left" -> <<-1, 0, 0>>
      [] d = "right" -> <<1, 0, 0>>
      [] d = "forward" -> <<0, 0, 1>>
      [] d = "back" -> <<0, 0, -1>>

\* HashedCoordinate::x / y / z
HashedX(value) == TryFromI16(Div16777216(value))
HashedY(value) == TryFromI16(Div4096(value))
HashedZ(value) == TryFromI16Wide(value)

\* Axis values the callers try: the i16 extremes, both sides of each limit,
\* the multipliers 4096 and their neighbours, and values only an i32 holds.
AxisSamples ==
    {-40000, -32768, -30921, -30920, -4097, -4096, -1, 0, 1,
     8, 4095, 4096, 30920, 30921, 32767, 40000}

IsI16(v) == v >= I16_MIN /\ v <= I16_MAX

InBounds(c) ==
    \A i \in 1..3 : c[i] >= -30920 /\ c[i] <= 30920

NoDecode == [x |-> TryFromI16(0), y |-> TryFromI16(0), z |-> TryFromI16(0)]

CoordIdle ==
    /\ coord = <<0, 0, 0>>
    /\ hashed = OutOfBounds
    /\ decoded = NoDecode
    /\ cpc = "idle"

CoordInit ==
    /\ coord \in AxisSamples \X AxisSamples \X AxisSamples
    /\ hashed = OutOfBounds
    /\ decoded = NoDecode
    /\ cpc = "start"

\* let h = HashedCoordinate::at(x, y, z);   (the arguments are i16)
At ==
    /\ cpc = "start"
    /\ \A i \in 1..3 : IsI16(coord[i])
    /\ hashed' = HashedAt(coord[1], coord[2], coord[3])
    /\ cpc' = "at"
    /\ UNCHANGED <<coord, decoded>>
    /\ UNCHANGED <<authVars, mapVars, blockVars, arithVars, kvVars, txtVars>>

\* let h = <HashedCoordinate as Coordinate>::from(SpatialCoordinate {x, y, z});
From ==
    /\ cpc = "start"
    /\ hashed' = HashedFrom(coord)
    /\ cpc' = "from"
    /\ UNCHANGED <<coord, decoded>>
    /\ UNCHANGED <<authVars, mapVars, blockVars, arithVars, kvVars, txtVars>>

\* (h.x(), h.y(), h.z()) on an address the encoding returned
Decode ==
    /\ cpc \in {"at", "from"}
    /\ hashed.ok
    /\ decoded' = [x |-> HashedX(hashed.value),
                   y |-> HashedY(hashed.value),
                   z |-> HashedZ(hashed.value)]
    /\ cpc' = IF cpc = "at" THEN "at_decoded" ELSE "from_decoded"
    /\ UNCHANGED <<coord, hashed>>
    /\ UNCHANGED <<authVars, mapVars, blockVars, arithVars, kvVars, txtVars>>

(***************************************************************************)
(*                     AuthSqlBackend  (auth.rs)                           *)
(***************************************************************************)

\* ---- the inputs the callers draw from ----
Names == {"alice", "bob"}
NewNames == Names \cup {"carol"}     \* the names a user is renamed to
Passwords == {"", "pw"}
LastLogins == {0, 1}
Privileges == {"interact", "shout"}

\* Privilege lists a caller assigns: empty, one tag, two tags, and a tag
\* listed twice.
PrivLists ==
    {<<>>, <<"interact">>, <<"shout">>, <<"interact", "shout">>,
     <<"interact", "interact">>}

MaxUsers == 2     \* longest in-memory user list
MaxEdits == 2     \* in-memory edits in one run
MaxId == 4        \* largest id AUTOINCREMENT hands out

User(n, pw, ll, pl) ==
    [name |-> n, password |-> pw, last_login |-> ll, privileges |-> pl]

Row(i, n, pw, ll) ==
    [id |-> i, name |-> n, password |-> pw, last_login |-> ll]

Priv(i, p) == [id |-> i, privilege |-> p]

Range(f) == {f[i] : i \in DOMAIN f}

\* ---- AuthSqlBackend::reload ----

RECURSIVE RowsById(_)
\* The rows of auth in rowid order, as "SELECT ... FROM auth" returns them.
RowsById(rows) ==
    IF rows = {} THEN <<>>
    ELSE LET first == CHOOSE r \in rows : \A q \in rows : r.id <= q.id
         IN  <<first>> \o RowsById(rows \ {first})

\* The privilege column in the order of the primary-key index.
PrivOrder == <<"interact", "shout">>

\* A JOIN without its ON clause: every privilege row joins every auth row.
JoinedPrivilegesAnyId(id, privT) ==
    SelectSeq(PrivOrder, LAMBDA p : \E row \in privT : row.privilege = p)

\* The privileges pushed onto the user of one auth row by the JOIN on id.
JoinedPrivileges(id, privT) ==
    SelectSeq(PrivOrder, LAMBDA p : Priv(id, p) \in privT)

\* A reload that reads the name column only.
ReloadNamesOnly(authT, privT) ==
    LET rows == RowsById(authT)
    IN  [k \in 1..Len(rows) |->
            User(rows[k].name, "", 0, JoinedPrivileges(rows[k].id, privT))]

\* self.users after reload(): one user per auth row; a user_privileges row
\* whose id is in no auth row is not part of the JOIN.
Reload(authT, privT) ==
    LET rows == RowsById(authT)
    IN  [k \in 1..Len(rows) |->
            User(rows[k].name, rows[k].password, rows[k].last_login,
                 JoinedPrivileges(rows[k].id, privT))]

\* ---- AuthSqlBackend::save, statement by statement ----
\* tx is the content the open transaction sees:
\*   [auth, privs, seq, failed, stmts, log]; failed is set by the statement
\*   whose unwrap() panics, and the statements after it do not run; stmts
\*   counts the INSERT, UPDATE and DELETE statements executed, and log lists
\*   the statements executed on the connection in their order.

\* id_table after "SELECT id, name FROM auth"
IdTable(authT) ==
    [n \in {r.name : r \in authT} |-> (CHOOSE r \in authT : r.name = n).id]

\* name_table, the inverse of id_table
NameTable(id_table) ==
    [i \in {id_table[n] : n \in DOMAIN id_table} |->
        CHOOSE n \in DOMAIN id_table : id_table[n] = i]

RECURSIVE UpdateFrom(_, _, _, _)
UpdateFrom(tx, us, id_table, i) ==
    IF i > Len(us) THEN tx
    ELSE IF us[i].name \in DOMAIN id_table
         THEN LET id == id_table[us[i].name]
                  row == Row(id, us[i].name, us[i].password, us[i].last_login)
              IN  UpdateFrom([tx EXCEPT !.auth = {r \in @ : r.id # id} \cup {row},
                                        !.stmts = @ + 1,
                                        !.log = Append(@, "UPDATE auth")],
                             us, id_table, i + 1)
         ELSE UpdateFrom(tx, us, id_table, i + 1)

RECURSIVE ReplaceFrom(_, _, _, _)
ReplaceFrom(tx, us, id_table, i) ==
    IF i > Len(us) THEN tx
    ELSE IF us[i].name \in DOMAIN id_table
         THEN LET row == Row(tx.seq + 1, us[i].name, us[i].password, us[i].last_login)
              IN  ReplaceFrom([tx EXCEPT !.auth = {r \in @ : r.name # us[i].name} \cup {row},
                                         !.seq = @ + 1],
                              us, id_table, i + 1)
         ELSE ReplaceFrom(tx, us, id_table, i + 1)

\* A slip of the update: INSERT OR REPLACE instead of UPDATE ... WHERE id = ?,
\* which gives the row a fresh id.
UpdateExistingByReplace(tx, us, id_table) == ReplaceFrom(tx, us, id_table, 1)

\* A save without its update loop: the stored rows keep their values.
UpdateExistingSkipped(tx, us, id_table) == tx

\* "UPDATE auth SET name = ?, password = ?, last_login = ? WHERE id = ?" for
\* every in-memory user whose name has an id.
UpdateExisting(tx, us, id_table) == UpdateFrom(tx, us, id_table, 1)

RECURSIVE InsertFrom(_, _, _)
InsertFrom(st, us, i) ==
    IF i > Len(us) THEN st
    ELSE IF us[i].name \notin DOMAIN st.id_table
         THEN LET id == st.tx.seq + 1
                  row == Row(id, us[i].name, us[i].password, us[i].last_login)
              IN  InsertFrom([tx |-> [st.tx EXCEPT !.auth = @ \cup {row}, !.seq = id,
                                                   !.stmts = @ + 1,
                                                   !.log = Append(@, "INSERT auth")],
                              id_table |-> [n \in DOMAIN st.id_table \cup {us[i].name} |->
                                              IF n = us[i].name THEN id ELSE st.id_table[n]]],
                             us, i + 1)
         ELSE InsertFrom(st, us, i + 1)

\* "INSERT INTO auth (name, password, last_login)" for every in-memory user
\* whose name has no id yet; the generated id goes into id_table, so a second
\* user of the same name is skipped. Returns the transaction and id_table.
InsertNew(tx, us, id_table) ==
    InsertFrom([tx |-> tx, id_table |-> id_table], us, 1)

\* users.iter().find(|user| user.name == name): the first user of that name
FindUser(us, name) ==
    LET hits == {i \in 1..Len(us) : us[i].name = name}
    IN  IF hits = {} THEN 0 ELSE CHOOSE i \in hits : \A j \in hits : i <= j

\* to_remove of the privilege step: the stored pairs whose id is in
\* name_table, whose owner is in memory and does not list the privilege.
PrivilegesToRemove(tx, us, name_table) ==
    {row \in tx.privs :
        /\ row.id \in DOMAIN name_table
        /\ FindUser(us, name_table[row.id]) # 0
        /\ row.privilege \notin Range(us[FindUser(us, name_table[row.id])].privileges)}

\* "DELETE FROM user_privileges WHERE id = ? AND privilege = ?" for to_remove
DeletePrivileges(tx, us, name_table) ==
    [tx EXCEPT !.privs = @ \ PrivilegesToRemove(tx, us, name_table),
               !.stmts = @ + Cardinality(PrivilegesToRemove(tx, us, name_table)),
               !.log = @ \o [k \in 1..Cardinality(PrivilegesToRemove(tx, us, name_table)) |->
                                "DELETE user_privileges"]]

\* "SELECT DISTINCT privilege FROM user_privileges"
ExistingPrivileges(tx) == {row.privilege : row \in tx.privs}

RECURSIVE InsertPrivFrom(_, _, _, _, _, _)
InsertPrivFrom(tx, us, id_table, existing, i, j) ==
    IF tx.failed \/ i > Len(us) THEN tx
    ELSE IF j > Len(us[i].privileges)
         THEN InsertPrivFrom(tx, us, id_table, existing, i + 1, 1)
         ELSE LET p == us[i].privileges[j]
                  row == Priv(id_table[us[i].name], p)
              IN  IF p \in existing
                  THEN InsertPrivFrom(tx, us, id_table, existing, i, j + 1)
                  ELSE IF row \in tx.privs
                       THEN [tx EXCEPT !.failed = TRUE,
                                       !.log = Append(@, "INSERT user_privileges")]
                       ELSE InsertPrivFrom([tx EXCEPT !.privs = @ \cup {row},
                                                      !.stmts = @ + 1,
                                                      !.log = Append(@, "INSERT user_privileges")],
                                           us, id_table, existing, i, j + 1)

RECURSIVE InsertPrivLiveFrom(_, _, _, _, _)
InsertPrivLiveFrom(tx, us, id_table, i, j) ==
    IF tx.failed \/ i > Len(us) THEN tx
    ELSE IF j > Len(us[i].privileges)
         THEN InsertPrivLiveFrom(tx, us, id_table, i + 1, 1)
         ELSE LET p == us[i].privileges[j]
                  row == Priv(id_table[us[i].name], p)
              IN  IF p \in ExistingPrivileges(tx)
                  THEN InsertPrivLiveFrom(tx, us, id_table, i, j + 1)
                  ELSE InsertPrivLiveFrom([tx EXCEPT !.privs = @ \cup {row}],
                                          us, id_table, i, j + 1)

\* A slip of the insertion: the existence check reads the table as it is at
\* each insertion instead of the list taken before the loop.
InsertPrivilegesLive(tx, us, id_table) == InsertPrivLiveFrom(tx, us, id_table, 1, 1)

RECURSIVE InsertPrivAllFrom(_, _, _, _, _)
InsertPrivAllFrom(tx, us, id_table, i, j) ==
    IF tx.failed \/ i > Len(us) THEN tx
    ELSE IF j > Len(us[i].privileges)
         THEN InsertPrivAllFrom(tx, us, id_table, i + 1, 1)
         ELSE LET row == Priv(id_table[us[i].name], us[i].privileges[j])
              IN  IF row \in tx.privs
                  THEN [tx EXCEPT !.failed = TRUE]
                  ELSE InsertPrivAllFrom([tx EXCEPT !.privs = @ \cup {row}],
                                         us, id_table, i, j + 1)

\* A slip of the insertion: no existence check at all.
InsertPrivilegesUnchecked(tx, us, id_table) == InsertPrivAllFrom(tx, us, id_table, 1, 1)

RECURSIVE InsertPrivOwnFrom(_, _, _, _, _)
InsertPrivOwnFrom(tx, us, id_table, i, j) ==
    IF i > Len(us) THEN tx
    ELSE IF j > Len(us[i].privileges)
         THEN InsertPrivOwnFrom(tx, us, id_table, i + 1, 1)
         ELSE LET row == Priv(id_table[us[i].name], us[i].privileges[j])
              IN  InsertPrivOwnFrom([tx EXCEPT !.privs = @ \cup {row}],
                                    us, id_table, i, j + 1)

\* An insertion whose existence check is per (id, privilege) pair: every pair
\* of an in-memory user that is not a row is inserted.
InsertPrivilegesPerUser(tx, us, id_table) == InsertPrivOwnFrom(tx, us, id_table, 1, 1)

\* "INSERT INTO user_privileges (id, privilege)" for every privilege of every
\* in-memory user that is not in existing_privileges, the list read once
\* before the loop. A pair that is already a row violates the primary key.
InsertPrivileges(tx, us, id_table) ==
    InsertPrivFrom(tx, us, id_table, ExistingPrivileges(tx), 1, 1)

\* A slip of the clean-up: the negation is lost, and the rows whose name is
\* in memory are the ones removed.
UsersToRemoveInverted(tx, us) ==
    {r.id : r \in {q \in tx.auth : \E i \in 1..Len(us) : us[i].name = q.name}}

\* A save without its clean-up: no row is removed.
UsersToRemoveNone(tx, us) == {}

\* to_remove of the clean-up: ids of the auth rows whose name no in-memory
\* user has.
UsersToRemove(tx, us) ==
    {r.id : r \in {q \in tx.auth : \A i \in 1..Len(us) : us[i].name # q.name}}

\* "DELETE FROM auth WHERE id = ?" for to_remove; ON DELETE CASCADE removes the
\* user_privileges rows of a deleted id when foreign keys are enforced.
DeleteUsers(tx, us, fk) ==
    LET gone == UsersToRemove(tx, us)
    IN  IF tx.failed THEN tx
        ELSE [tx EXCEPT !.auth = {r \in @ : r.id \notin gone},
                        !.privs = IF fk THEN {row \in @ : row.id \notin gone} ELSE @,
                        !.stmts = @ + Cardinality(gone),
                        !.log = @ \o [k \in 1..Cardinality(gone) |-> "DELETE auth"]]

\* A save whose clean-up of auth runs before the privilege steps.
SaveTxCleanUpFirst(authT, privT, sq, us, fk) ==
    LET tx0 == [auth |-> authT, privs |-> privT, seq |-> sq, failed |-> FALSE,
                stmts |-> 0, log |-> <<"BEGIN">>]
        id_table0 == IdTable(authT)
        st2 == InsertNew(UpdateExisting(tx0, us, id_table0), us, id_table0)
        tx3 == DeleteUsers(st2.tx, us, fk)
        tx4 == DeletePrivileges(tx3, us, NameTable(id_table0))
        tx5 == InsertPrivileges(tx4, us, st2.id_table)
    IN  IF tx5.failed THEN tx5 ELSE [tx5 EXCEPT !.log = Append(@, "COMMIT")]

\* The transaction of save(): BEGIN, the statements in their order, up to the
\* COMMIT or to the statement that fails.
SaveTx(authT, privT, sq, us, fk) ==
    LET tx0 == [auth |-> authT, privs |-> privT, seq |-> sq, failed |-> FALSE,
                stmts |-> 0, log |-> <<"BEGIN">>]
        id_table0 == IdTable(authT)
        name_table == NameTable(id_table0)
        tx1 == UpdateExisting(tx0, us, id_table0)
        st2 == InsertNew(tx1, us, id_table0)
        tx3 == DeletePrivileges(st2.tx, us, name_table)
        tx4 == InsertPrivileges(tx3, us, st2.id_table)
        tx5 == DeleteUsers(tx4, us, fk)
    IN  IF tx5.failed THEN tx5 ELSE [tx5 EXCEPT !.log = Append(@, "COMMIT")]

\* A slip of the transaction: no BEGIN, so every statement commits by itself.
DurableAutocommit(before, tx) == [auth |-> tx.auth, privs |-> tx.privs, seq |-> tx.seq]

\* What the tables hold once save() has returned or panicked: the
\* transaction's content after COMMIT; the content of before BEGIN when a
\* statement failed, because the panic drops the connection with the
\* transaction still open.
Durable(before, tx) ==
    IF tx.failed THEN before
    ELSE [auth |-> tx.auth, privs |-> tx.privs, seq |-> tx.seq]

Store(a, p, s) == [auth |-> a, privs |-> p, seq |-> s]

\* A save that ends by loading the list again from what it wrote.
SavedUsersReloaded(us, tx) == Reload(tx.auth, tx.privs)

\* self.users once save() has returned: save reads the list and never
\* assigns it
SavedUsers(us, tx) == us

\* A store created with a first account in it.
OpenMemorySeeded ==
    [auth |-> {Row(1, "alice", "", 0)}, privs |-> {}, seq |-> 1, users |-> <<>>]

\* AuthSqlBackend::open_memory(): a new connection, the two CREATE TABLE
\* statements, and users: Vec::new()
OpenMemoryBackend == [auth |-> {}, privs |-> {}, seq |-> 0, users |-> <<>>]

\* ---- what the caller remembers (history, not program state) ----
\*   pre:  the tables when the last save() was called
\*   mem:  self.users when the last save() was called
\*   tx:   the content the transaction of the last save() had reached
\*   from: the caller's position when the last save(), or the reload() that
\*         discarded the list, was called
\*   stmts: the INSERT, UPDATE and DELETE statements the last save() executed
\*   log:  the statements the last save() executed, in their order
\*   fresh: whether both tables were empty when the last save() was called
\*   base, gone: the user list a remove(gone) right after a save-and-reload
\*         was applied to
NoSnap ==
    [pre |-> Store({}, {}, 0), mem |-> <<>>, tx |-> Store({}, {}, 0),
     from |-> "", fresh |-> FALSE, base |-> <<>>, gone |-> 0, stmts |-> 0,
     log |-> <<>>]

\* Stores an existing file may hold when it is opened.
InitStores ==
    { Store({}, {}, 0),
      Store({Row(1, "alice", "pw", 1)}, {Priv(1, "interact")}, 1),
      Store({Row(1, "alice", "pw", 1), Row(2, "bob", "", 0)},
            {Priv(1, "interact"), Priv(1, "shout"), Priv(2, "interact"), Priv(2, "shout")}, 2),
      Store({Row(1, "alice", "", 0), Row(2, "bob", "pw", 1)},
            {Priv(1, "interact"), Priv(2, "shout")}, 3),
      Store({Row(2, "bob", "pw", 0)}, {Priv(2, "interact"), Priv(1, "shout")}, 2) }

AuthIdle ==
    /\ auth = {}
    /\ user_privileges = {}
    /\ seq = 0
    /\ foreign_keys = TRUE
    /\ users = <<>>
    /\ apc = "idle"
    /\ snap = NoSnap
    /\ edits = 0

\* open_memory() (the empty store) or open_file() (any store, then reload)
AuthInit ==
    /\ \E s \in InitStores :
          /\ auth = s.auth
          /\ user_privileges = s.privs
          /\ seq = s.seq
          /\ users = Reload(s.auth, s.privs)
    /\ foreign_keys \in BOOLEAN
    /\ apc = "loaded"
    /\ snap = NoSnap
    /\ edits = 0

CanEdit == apc # "panicked" /\ edits < MaxEdits

Edited(us) ==
    /\ users' = us
    /\ edits' = edits + 1
    /\ apc' = "edited"
    /\ snap' = NoSnap
    /\ UNCHANGED <<auth, user_privileges, seq, foreign_keys>>
    /\ UNCHANGED <<coordVars, mapVars, blockVars, arithVars, kvVars, txtVars>>

\* backend.users.push(AuthSqlBackendUser { name, password: String::new(),
\*                                         last_login: 0, privileges })
Push ==
    /\ CanEdit
    /\ Len(users) < MaxUsers
    /\ \E n \in Names, pl \in PrivLists : Edited(Append(users, User(n, "", 0, pl)))

RemoveAt(us, i) == [k \in 1..(Len(us) - 1) |-> IF k < i THEN us[k] ELSE us[k + 1]]

\* backend.users.remove(i)
Remove ==
    /\ CanEdit
    /\ \E i \in 1..Len(users) :
          /\ users' = RemoveAt(users, i)
          /\ edits' = edits + 1
          /\ apc' = IF apc = "synced" THEN "removed" ELSE "edited"
          /\ snap' = IF apc = "synced"
                     THEN [NoSnap EXCEPT !.base = users, !.gone = i]
                     ELSE NoSnap
          /\ UNCHANGED <<auth, user_privileges, seq, foreign_keys>>
    /\ UNCHANGED <<coordVars, mapVars, blockVars, arithVars, kvVars, txtVars>>

\* backend.users[i].name = n
SetName ==
    /\ CanEdit
    /\ \E i \in 1..Len(users), n \in NewNames :
          /\ n # users[i].name
          /\ Edited([users EXCEPT ![i].name = n])

\* backend.users[i].password = pw
SetPassword ==
    /\ CanEdit
    /\ \E i \in 1..Len(users), pw \in Passwords :
          /\ pw # users[i].password
          /\ Edited([users EXCEPT ![i].password = pw])

\* backend.users[i].last_login = ll
SetLastLogin ==
    /\ CanEdit
    /\ \E i \in 1..Len(users), ll \in LastLogins :
          /\ ll # users[i].last_login
          /\ Edited([users EXCEPT ![i].last_login = ll])

\* backend.users[i].privileges = pl
SetPrivileges ==
    /\ CanEdit
    /\ \E i \in 1..Len(users), pl \in PrivLists :
          /\ pl # users[i].privileges
          /\ Edited([users EXCEPT ![i].privileges = pl])

\* backend.save()
Save ==
    /\ apc # "panicked"
    /\ \E tx \in {SaveTx(auth, user_privileges, seq, users, foreign_keys)} :
       LET before == Store(auth, user_privileges, seq)
           after == Durable(before, tx)
       IN  /\ tx.seq <= MaxId
           /\ auth' = after.auth
           /\ user_privileges' = after.privs
           /\ seq' = after.seq
           /\ apc' = IF tx.failed THEN "panicked" ELSE "saved"
           /\ snap' = [snap EXCEPT !.pre = before, !.mem = users, !.from = apc,
                                   !.tx = Store(tx.auth, tx.privs, tx.seq),
                                   !.fresh = (auth = {} /\ user_privileges = {}),
                                   !.stmts = tx.stmts, !.log = tx.log]
           /\ users' = SavedUsers(users, tx)
    /\ UNCHANGED <<foreign_keys, edits>>
    /\ UNCHANGED <<coordVars, mapVars, blockVars, arithVars, kvVars, txtVars>>

\* backend.reload()
ReloadUsers ==
    /\ apc # "panicked"
    /\ users' = Reload(auth, user_privileges)
    /\ apc' = IF apc = "saved" THEN "synced" ELSE "loaded"
    /\ snap' = IF apc = "saved"
               THEN [snap EXCEPT !.pre = NoSnap.pre, !.tx = NoSnap.tx]
               ELSE [NoSnap EXCEPT !.from = apc]
    /\ UNCHANGED <<auth, user_privileges, seq, foreign_keys, edits>>
    /\ UNCHANGED <<coordVars, mapVars, blockVars, arithVars, kvVars, txtVars>>

\* AuthSqlBackend::open_file on the store a panicked save left behind
OpenFile ==
    /\ apc = "panicked"
    /\ users' = Reload(auth, user_privileges)
    /\ apc' = "loaded"
    /\ snap' = NoSnap
    /\ UNCHANGED <<auth, user_privileges, seq, foreign_keys, edits>>
    /\ UNCHANGED <<coordVars, mapVars, blockVars, arithVars, kvVars, txtVars>>

\* backend = AuthSqlBackend::open_memory(), in place of the backend in use
OpenMemory ==
    /\ auth' = OpenMemoryBackend.auth
    /\ user_privileges' = OpenMemoryBackend.privs
    /\ seq' = OpenMemoryBackend.seq
    /\ users' = OpenMemoryBackend.users
    /\ apc' = "memory"
    /\ snap' = NoSnap
    /\ UNCHANGED <<foreign_keys, edits>>
    /\ UNCHANGED <<coordVars, mapVars, blockVars, arithVars, kvVars, txtVars>>

(***************************************************************************)
(*                     SQLite3MapReader  (map.rs)                          *)
(***************************************************************************)

\* In-bounds coordinates whose addresses the callers use: the origin, one
\* step up and one step right.
MapCoords == {<<0, 0, 0>>, <<0, 1, 0>>, <<1, 0, 0>>}

\* HashedCoordinate::at(x, y, z).unwrap().value
Address(c) == HashedAt(c[1], c[2], c[3]).value

\* payloads handed to set_block
BlockData == {<<0, 1, 2, 3>>, <<29>>}

\* What the storage engine does to one call: nothing, a failure while the
\* statement is prepared, or a failure while it is stepped.
Faults == {"none", "prepare", "step"}

BlockRow(p, d) == [pos |-> p, data |-> d]

\* the rows of blocks WHERE pos = ?, in rowid order
Matching(tbl, pos) == SelectSeq(tbl, LAMBDA r : r.pos = pos)

\* the addresses that have a row in blocks
Stored == {blocks[i].pos : i \in DOMAIN blocks}

NoCall == [op |-> "none", coord |-> <<0, 0, 0>>, pos |-> Zero64, data |-> <<>>,
           fault |-> "none", held |-> FALSE]

\* a call on the address of c; held tells whether the address had a row when
\* the call was made
Call(op, c, d, f) ==
    [op |-> op, coord |-> c, pos |-> Address(c), data |-> d, fault |-> f,
     held |-> Address(c) \in Stored]

NoReturn == [kind |-> "none", msg |-> "", exists |-> FALSE, data |-> <<>>,
             coord |-> <<0, 0, 0>>, list |-> <<>>]

Unit == [NoReturn EXCEPT !.kind = "ok"]

\* WorldError::DatabaseError(msg)
DatabaseError(msg) == [NoReturn EXCEPT !.kind = "db_error", !.msg = msg]

\* WorldError::PartitionNotFound(c)
PartitionNotFound(c) == [NoReturn EXCEPT !.kind = "not_found", !.coord = c]

\* the call unwound in a panic
Panicked == [NoReturn EXCEPT !.kind = "panic"]

\* <SpatialCoordinate as Coordinate>::from(coord).unwrap(): reads coord.x(),
\* coord.y() and coord.z(), each of which may panic
SpatialFrom(value) ==
    LET x == HashedX(value)
        y == HashedY(value)
        z == HashedZ(value)
    IN  [panic |-> x.panic \/ y.panic \/ z.panic,
         coord |-> <<x.value, y.value, z.value>>]

\* SQLite3MapReader::block_exists(coord)
BlockExists(tbl, pos, fault) ==
    IF fault = "prepare" THEN DatabaseError("Failed to prepare statement")
    ELSE IF fault = "step" THEN DatabaseError("Failed to count blocks")
    ELSE LET count == Len(Matching(tbl, pos))
         IN  [Unit EXCEPT !.exists = (count > 0)]

\* SQLite3MapReader::blocks()
Blocks(tbl, fault) ==
    IF fault = "prepare" THEN DatabaseError("Failed to prepare statement")
    ELSE IF fault = "step" THEN DatabaseError("Failed to get next row")
    ELSE [Unit EXCEPT !.list = [i \in 1..Len(tbl) |-> tbl[i].pos]]

\* SQLite3MapReader::get_block(coord): query_row(..).ok() turns every error of
\* the query into None
GetBlock(tbl, pos, fault) ==
    IF fault = "prepare" THEN DatabaseError("Failed to prepare statement")
    ELSE LET rows == Matching(tbl, pos)
             block_data == IF fault = "none" /\ rows # <<>>
                           THEN <<rows[1].data>>
                           ELSE <<>>
         IN  IF block_data # <<>>
             THEN [Unit EXCEPT !.data = block_data[1]]
             ELSE LET c == SpatialFrom(pos)
                  IN  IF c.panic THEN Panicked ELSE PartitionNotFound(c.coord)

\* A table declared without its primary key: the INSERT always succeeds.
SetBlockNoKey(tbl, pos, data, fault) ==
    IF fault = "prepare"
    THEN [table |-> tbl, ret |-> DatabaseError("Failed to prepare statement")]
    ELSE IF fault = "step"
    THEN [table |-> tbl, ret |-> DatabaseError("Failed to insert block")]
    ELSE [table |-> Append(tbl, BlockRow(pos, data)), ret |-> Unit]

\* INSERT OR REPLACE in place of INSERT: the stored row is overwritten.
SetBlockReplace(tbl, pos, data, fault) ==
    IF fault = "prepare"
    THEN [table |-> tbl, ret |-> DatabaseError("Failed to prepare statement")]
    ELSE IF fault = "step"
    THEN [table |-> tbl, ret |-> DatabaseError("Failed to insert block")]
    ELSE [table |-> Append(SelectSeq(tbl, LAMBDA r : r.pos # pos), BlockRow(pos, data)),
          ret |-> Unit]

\* SQLite3MapReader::set_block(coord, data): INSERT INTO blocks, which the
\* primary key on pos rejects when a row of that pos is stored
SetBlock(tbl, pos, data, fault) ==
    IF fault = "prepare"
    THEN [table |-> tbl, ret |-> DatabaseError("Failed to prepare statement")]
    ELSE IF fault = "step" \/ Matching(tbl, pos) # <<>>
    THEN [table |-> tbl, ret |-> DatabaseError("Failed to insert block")]
    ELSE [table |-> Append(tbl, BlockRow(pos, data)), ret |-> Unit]

\* DELETE FROM blocks without its WHERE clause.
RemoveBlockAll(tbl, pos, fault) ==
    IF fault = "prepare"
    THEN [table |-> tbl, ret |-> DatabaseError("Failed to prepare statement")]
    ELSE IF fault = "step"
    THEN [table |-> tbl, ret |-> DatabaseError("Failed to delete block")]
    ELSE [table |-> <<>>, ret |-> Unit]

\* A remove_block that reports an error when the DELETE changed no row.
RemoveBlockStrict(tbl, pos, fault) ==
    IF fault = "prepare"
    THEN [table |-> tbl, ret |-> DatabaseError("Failed to prepare statement")]
    ELSE IF fault = "step" \/ Matching(tbl, pos) = <<>>
    THEN [table |-> tbl, ret |-> DatabaseError("Failed to delete block")]
    ELSE [table |-> SelectSeq(tbl, LAMBDA r : r.pos # pos), ret |-> Unit]

\* The comparison of the WHERE clause inverted: DELETE ... WHERE pos <> ?
RemoveBlockOthers(tbl, pos, fault) ==
    IF fault = "prepare"
    THEN [table |-> tbl, ret |-> DatabaseError("Failed to prepare statement")]
    ELSE IF fault = "step"
    THEN [table |-> tbl, ret |-> DatabaseError("Failed to delete block")]
    ELSE [table |-> SelectSeq(tbl, LAMBDA r : r.pos = pos), ret |-> Unit]

\* SQLite3MapReader::remove_block(coord): DELETE FROM blocks WHERE pos = ?
RemoveBlock(tbl, pos, fault) ==
    IF fault = "prepare"
    THEN [table |-> tbl, ret |-> DatabaseError("Failed to prepare statement")]
    ELSE IF fault = "step"
    THEN [table |-> tbl, ret |-> DatabaseError("Failed to delete block")]
    ELSE [table |-> SelectSeq(tbl, LAMBDA r : r.pos # pos), ret |-> Unit]

\* the payload a caller knows to be at an address: none
NoPut == [c \in MapCoords |-> <<>>]

MapIdle ==
    /\ blocks = <<>>
    /\ put = NoPut
    /\ mcall = NoCall
    /\ mret = NoReturn

\* SQLite3MapReader::open_memory() creates an empty table; open_file opens
\* whatever the file holds
InitTables ==
    {<<>>, <<BlockRow(Address(<<0, 1, 0>>), <<29>>)>>}

MapInit ==
    /\ blocks \in InitTables
    /\ put = NoPut
    /\ mcall = NoCall
    /\ mret = NoReturn

\* a panic unwinds the calling thread: it makes no further call
MapRunning == mret.kind # "panic"

\* manager.set_block(coord, &data)
SetBlockCall ==
    /\ MapRunning
    /\ \E c \in MapCoords, d \in BlockData, f \in Faults :
          LET r == SetBlock(blocks, Address(c), d, f)
          IN  /\ blocks' = r.table
              /\ mret' = r.ret
              /\ mcall' = Call("set_block", c, d, f)
              /\ put' = IF r.ret.kind = "ok" THEN [put EXCEPT ![c] = <<d>>] ELSE put
    /\ UNCHANGED <<coordVars, authVars, blockVars, arithVars, kvVars, txtVars>>

\* manager.remove_block(coord)
RemoveBlockCall ==
    /\ MapRunning
    /\ \E c \in MapCoords, f \in Faults :
          LET r == RemoveBlock(blocks, Address(c), f)
          IN  /\ blocks' = r.table
              /\ mret' = r.ret
              /\ mcall' = Call("remove_block", c, <<>>, f)
              /\ put' = [put EXCEPT ![c] = <<>>]
    /\ UNCHANGED <<coordVars, authVars, blockVars, arithVars, kvVars, txtVars>>

\* manager.get_block(coord)
GetBlockCall ==
    /\ MapRunning
    /\ \E c \in MapCoords, f \in Faults :
          /\ mret' = GetBlock(blocks, Address(c), f)
          /\ mcall' = Call("get_block", c, <<>>, f)
    /\ UNCHANGED <<blocks, put>>
    /\ UNCHANGED <<coordVars, authVars, blockVars, arithVars, kvVars, txtVars>>

\* manager.block_exists(coord)
BlockExistsCall ==
    /\ MapRunning
    /\ \E c \in MapCoords, f \in Faults :
          /\ mret' = BlockExists(blocks, Address(c), f)
          /\ mcall' = Call("block_exists", c, <<>>, f)
    /\ UNCHANGED <<blocks, put>>
    /\ UNCHANGED <<coordVars, authVars, blockVars, arithVars, kvVars, txtVars>>

\* manager.blocks()
BlocksCall ==
    /\ MapRunning
    /\ \E f \in Faults :
          /\ mret' = Blocks(blocks, f)
          /\ mcall' = [NoCall EXCEPT !.op = "blocks", !.fault = f]
    /\ UNCHANGED <<blocks, put>>
    /\ UNCHANGED <<coordVars, authVars, blockVars, arithVars, kvVars, txtVars>>

(***************************************************************************)
(*               Block payloads  (block_serialization)                     *)
(***************************************************************************)

MaxPayloadLen == 15     \* longest payload handed to deserialize_block_data

\* Leading bytes, values of the byte the flags are read from, and the byte
\* every other position holds.
VersionTags == {0, 28, 29, 30, 255}
FlagBytes == (0..31) \cup {64, 128, 170, 240, 255}
FillBytes == {0, 255}

\* a Vec<u8> of len bytes: data[0] = tag, data[3] = flag
Payload(tag, len, flag, fill) ==
    [i \in 1..len |-> IF i = 1 THEN tag ELSE IF i = 4 THEN flag ELSE fill]

Payloads ==
    {Payload(tag, len, flag, fill) :
        tag \in VersionTags, len \in 0..MaxPayloadLen, flag \in FlagBytes, fill \in FillBytes}

\* a & mask on u8
RECURSIVE BitAnd(_, _)
BitAnd(a, mask) ==
    IF a = 0 \/ mask = 0
    THEN 0
    ELSE (a % 2) * (mask % 2) + 2 * BitAnd(a \div 2, mask \div 2)

NoBlock == [kind |-> "none", header_bytes |-> <<>>]

\* A header taken from the end of the slice, data[data.len() - 13..]
MapBlock29DeserializeTail(data) ==
    IF Len(data) < 13
    THEN [NoBlock EXCEPT !.kind = "panic"]
    ELSE [kind |-> "ok", header_bytes |-> SubSeq(data, Len(data) - 12, Len(data))]

\* MapBlock29::deserialize(data): data[0..13] panics on a slice shorter than 13
MapBlock29Deserialize(data) ==
    IF Len(data) < 13
    THEN [NoBlock EXCEPT !.kind = "panic"]
    ELSE [kind |-> "ok", header_bytes |-> SubSeq(data, 1, 13)]

\* A match without its version arm: every payload is decoded as version 29.
DeserializeAnyVersion(data) ==
    IF Len(data) = 0
    THEN [NoBlock EXCEPT !.kind = "panic"]
    ELSE MapBlock29Deserialize(Tail(data))

\* deserialize_block_data(data): data[0] panics on an empty Vec
DeserializeBlockData(data) ==
    IF Len(data) = 0
    THEN [NoBlock EXCEPT !.kind = "panic"]
    ELSE IF data[1] = 29
    THEN MapBlock29Deserialize(Tail(data))
    ELSE [NoBlock EXCEPT !.kind = "err"]

\* MapBlock29::underground / day_night_differs / light_dirty: header_bytes[2]
\* is the third byte of the header
Underground(block) == BitAnd(block.header_bytes[3], 1) # 0
DayNightDiffers(block) == BitAnd(block.header_bytes[3], 2) # 0
LightDirty(block) == BitAnd(block.header_bytes[3], 4) # 0

\* The mask of light_dirty copied into was_generated.
WasGeneratedCopied(block) == BitAnd(block.header_bytes[3], 4) # 0

\* MapBlock29::was_generated
WasGenerated(block) == BitAnd(block.header_bytes[3], 8) # 0

\* MapBlock29::light_complete(bank, direction) and MapBlock29::timestamp
LightBanks == {"Day", "Night"}
LightComplete(block, bank, direction) == FALSE
Timestamp(block) == 0

\* MapBlock29::serialize: Vec::new()
MapBlock29Serialize(block) == <<>>

NoFlags == [underground |-> FALSE, day_night_differs |-> FALSE,
            light_dirty |-> FALSE, was_generated |-> FALSE]

BlockIdle ==
    /\ payload = <<>>
    /\ mapblock = NoBlock
    /\ flags = NoFlags
    /\ bpc = "idle"

BlockInit ==
    /\ payload \in Payloads
    /\ mapblock = NoBlock
    /\ flags = NoFlags
    /\ bpc = "start"

\* let block = deserialize_block_data(&payload);
Deserialize ==
    /\ bpc = "start"
    /\ mapblock' = DeserializeBlockData(payload)
    /\ bpc' = "deserialized"
    /\ UNCHANGED <<payload, flags>>
    /\ UNCHANGED <<coordVars, authVars, mapVars, arithVars, kvVars, txtVars>>

\* (block.underground(), block.day_night_differs(), block.light_dirty(),
\*  block.was_generated()) on a decoded block
ReadFlags ==
    /\ bpc = "deserialized"
    /\ mapblock.kind = "ok"
    /\ flags' = [underground |-> Underground(mapblock),
                 day_night_differs |-> DayNightDiffers(mapblock),
                 light_dirty |-> LightDirty(mapblock),
                 was_generated |-> WasGenerated(mapblock)]
    /\ bpc' = "flags"
    /\ UNCHANGED <<payload, mapblock>>
    /\ UNCHANGED <<coordVars, authVars, mapVars, arithVars, kvVars, txtVars>>

\* let bytes = block.serialize();
Serialize ==
    /\ bpc = "flags"
    /\ payload' = MapBlock29Serialize(mapblock)
    /\ bpc' = "serialized"
    /\ UNCHANGED <<mapblock, flags>>
    /\ UNCHANGED <<coordVars, authVars, mapVars, arithVars, kvVars, txtVars>>

\* let again = deserialize_block_data(&bytes);   flags keeps what the first
\* decoding read
DeserializeAgain ==
    /\ bpc = "serialized"
    /\ mapblock' = DeserializeBlockData(payload)
    /\ bpc' = "redecoded"
    /\ UNCHANGED <<payload, flags>>
    /\ UNCHANGED <<coordVars, authVars, mapVars, arithVars, kvVars, txtVars>>

(***************************************************************************)
(*               Add / Sub for HashedCoordinate  (map.rs)                  *)
(***************************************************************************)

\* An i64 with its full range, as four base-65536 limbs:
\*   value = w3 * 2^48 + w2 * 2^32 + w1 * 2^16 + w0,
\* w3 signed in -32768..32767 and 0 <= w2, w1, w0 < 65536.
WORD == 65536

I64(w3, w2, w1, w0) == [w3 |-> w3, w2 |-> w2, w1 |-> w1, w0 |-> w0]

\* the limbs [hi, mid, lo] of an encoded address as an i64
Wide(v) ==
    LET low == v.mid * LIMB + v.lo       \* the low 24 bits
        hi8 == v.hi % 256
    IN  I64(v.hi \div 16777216, (v.hi \div 256) % WORD,
            hi8 * 256 + low \div WORD, low % WORD)

\* i64 values the operands are drawn from: i64::MIN, i64::MAX, -1, 0, 1,
\* values with a run of set bits below a limb boundary, and the addresses of
\* the corners of the world and of one step up.
I64Samples ==
    {I64(-32768, 0, 0, 0), I64(I16_MAX, WORD - 1, WORD - 1, WORD - 1),
     I64(-1, WORD - 1, WORD - 1, WORD - 1), I64(0, 0, 0, 0), I64(0, 0, 0, 1),
     I64(0, 0, WORD - 1, WORD - 1), I64(0, WORD - 1, WORD - 1, WORD - 1),
     I64(16384, 0, 0, 0), I64(-16385, WORD - 1, 0, 0),
     Wide(HashedAt(LIMIT_MAX, LIMIT_MAX, LIMIT_MAX).value),
     Wide(HashedAt(LIMIT_MIN, LIMIT_MIN, LIMIT_MIN).value),
     Wide(HashedAt(0, 1, 0).value)}

\* the top limb of a sum taken modulo 2^64 into the signed range
WrapTop(t) == ((t - I16_MIN) % WORD) + I16_MIN

\* self.value + other.value as a build with overflow checks computes it: a
\* panic when the sum leaves the range of i64.
CheckedAdd(a, b) ==
    LET s0 == a.w0 + b.w0
        s1 == a.w1 + b.w1 + s0 \div WORD
        s2 == a.w2 + b.w2 + s1 \div WORD
        s3 == a.w3 + b.w3 + s2 \div WORD
    IN  [panic |-> s3 < I16_MIN \/ s3 > I16_MAX,
         value |-> I64(WrapTop(s3), s2 % WORD, s1 % WORD, s0 % WORD)]

\* self.value.wrapping_add(other.value)
WrappingAdd(a, b) ==
    LET s0 == a.w0 + b.w0
        s1 == a.w1 + b.w1 + s0 \div WORD
        s2 == a.w2 + b.w2 + s1 \div WORD
        s3 == a.w3 + b.w3 + s2 \div WORD
    IN  [panic |-> FALSE,
         value |-> I64(WrapTop(s3), s2 % WORD, s1 % WORD, s0 % WORD)]

\* self.value.wrapping_sub(other.value); a negative limb difference borrows
\* from the next limb (\div rounds down)
WrappingSub(a, b) ==
    LET d0 == a.w0 - b.w0
        d1 == a.w1 - b.w1 + d0 \div WORD
        d2 == a.w2 - b.w2 + d1 \div WORD
        d3 == a.w3 - b.w3 + d2 \div WORD
    IN  [panic |-> FALSE,
         value |-> I64(WrapTop(d3), d2 % WORD, d1 % WORD, d0 % WORD)]

NoSum == [panic |-> FALSE, value |-> I64(0, 0, 0, 0)]

ArithIdle ==
    /\ lhs = I64(0, 0, 0, 0)
    /\ rhs = I64(0, 0, 0, 0)
    /\ sum = NoSum
    /\ kpc = "idle"

ArithInit ==
    /\ lhs \in I64Samples
    /\ rhs \in I64Samples
    /\ sum = NoSum
    /\ kpc = "start"

\* HashedCoordinate { value: lhs } + HashedCoordinate { value: rhs }
Add ==
    /\ kpc = "start"
    /\ sum' = WrappingAdd(lhs, rhs)
    /\ kpc' = "added"
    /\ UNCHANGED <<lhs, rhs>>
    /\ UNCHANGED <<coordVars, authVars, mapVars, blockVars, kvVars, txtVars>>

\* HashedCoordinate { value: lhs } - HashedCoordinate { value: rhs }
Sub ==
    /\ kpc = "start"
    /\ sum' = WrappingSub(lhs, rhs)
    /\ kpc' = "subtracted"
    /\ UNCHANGED <<lhs, rhs>>
    /\ UNCHANGED <<coordVars, authVars, mapVars, blockVars, kvVars, txtVars>>

(***************************************************************************)
(*                     KeyValue  (file_format.rs)                          *)
(***************************************************************************)

MaxTextLen == 5      \* longest serialized text, in characters

\* A text is a sequence of characters; these are the ones the parser tells
\* apart: a letter, the separator, the comment mark, a blank, the line end.
Chars == {"a", "=", "-", " ", "\n"}

Texts == UNION {[1..n -> Chars] : n \in 0..MaxTextLen}

\* keys a caller looks up
Keys == {<<"a">>, <<"a", "a">>, <<"a", "-", "a">>}

\* the index of the first ch in s, 0 when there is none (str::find)
RECURSIVE FindFrom(_, _, _)
FindFrom(s, ch, i) ==
    IF i > Len(s) THEN 0
    ELSE IF s[i] = ch THEN i
    ELSE FindFrom(s, ch, i + 1)

\* str::lines: the pieces between line ends; no piece after a final line end
RECURSIVE Lines(_)
Lines(s) ==
    IF s = <<>> THEN <<>>
    ELSE LET nl == FindFrom(s, "\n", 1)
         IN  IF nl = 0 THEN <<s>>
             ELSE <<SubSeq(s, 1, nl - 1)>> \o Lines(SubSeq(s, nl + 1, Len(s)))

\* str::trim
RECURSIVE Trim(_)
Trim(s) ==
    IF s = <<>> THEN s
    ELSE IF Head(s) = " " THEN Trim(Tail(s))
    ELSE IF s[Len(s)] = " " THEN Trim(SubSeq(s, 1, Len(s) - 1))
    ELSE s

\* one pass of the loop body of KeyValue::from on a non-empty trimmed line:
\* splitn(2, '='), the two trims, and the cut at the first '-'
Entry(line) ==
    LET eq == FindFrom(line, "=", 1)
        key == Trim(IF eq = 0 THEN line ELSE SubSeq(line, 1, eq - 1))
        value == Trim(IF eq = 0 THEN <<>> ELSE SubSeq(line, eq + 1, Len(line)))
        comment_start == FindFrom(value, "-", 1)
    IN  IF comment_start # 0
        THEN <<key, Trim(SubSeq(value, 1, comment_start - 1))>>
        ELSE <<key, value>>

RECURSIVE EntriesFrom(_, _)
EntriesFrom(lines, i) ==
    IF i > Len(lines) THEN <<>>
    ELSE LET line == Trim(lines[i])
         IN  IF line = <<>>
             THEN EntriesFrom(lines, i + 1)
             ELSE <<Entry(line)>> \o EntriesFrom(lines, i + 1)

\* KeyValue::from(serialized).data
KeyValueFrom(serialized) == EntriesFrom(Lines(serialized), 1)

None == [some |-> FALSE, value |-> <<>>]
Some(v) == [some |-> TRUE, value |-> v]

\* A get that keeps looking after a match: the last entry of the key wins.
KeyValueGetLast(entries, key) ==
    LET hits == {i \in 1..Len(entries) : entries[i][1] = key}
    IN  IF hits = {} THEN None
        ELSE Some(entries[CHOOSE i \in hits : \A j \in hits : j <= i][2])

\* KeyValue::get(key)
RECURSIVE KeyValueGetFrom(_, _, _)
KeyValueGetFrom(entries, key, i) ==
    IF i > Len(entries) THEN None
    ELSE IF entries[i][1] = key THEN Some(entries[i][2])
    ELSE KeyValueGetFrom(entries, key, i + 1)

KeyValueGet(entries, key) == KeyValueGetFrom(entries, key, 1)

NoGet == [key |-> <<>>, ret |-> None]

KvIdle ==
    /\ text = <<>>
    /\ kv = <<>>
    /\ got = NoGet
    /\ vpc = "idle"

KvInit ==
    /\ text \in Texts
    /\ kv = <<>>
    /\ got = NoGet
    /\ vpc = "start"

\* let kv = KeyValue::from(text);
FromText ==
    /\ vpc = "start"
    /\ kv' = KeyValueFrom(text)
    /\ vpc' = "parsed"
    /\ UNCHANGED <<text, got>>
    /\ UNCHANGED <<coordVars, authVars, mapVars, blockVars, arithVars, txtVars>>

\* kv.get(key)
Get ==
    /\ vpc \in {"parsed", "got"}
    /\ \E key \in Keys :
          got' = [key |-> key, ret |-> KeyValueGet(kv, key)]
    /\ vpc' = "got"
    /\ UNCHANGED <<text, kv>>
    /\ UNCHANGED <<coordVars, authVars, mapVars, blockVars, arithVars, txtVars>>

(***************************************************************************)
(*                     AuthTxtBackend  (auth.rs)                           *)
(***************************************************************************)

MaxTxtLen == 6       \* longest auth.txt text, in characters

\* str::split(ch): the pieces between the separators; a string without one,
\* the empty string too, is a single piece
RECURSIVE Split(_, _)
Split(s, ch) ==
    LET k == FindFrom(s, ch, 1)
    IN  IF k = 0 THEN <<s>>
        ELSE <<SubSeq(s, 1, k - 1)>> \o Split(SubSeq(s, k + 1, Len(s)), ch)

\* one pass of the loop body of AuthTxtBackend::from on a non-empty trimmed
\* line: splitn(2, ':') twice, the trims, and split(',') on what follows the
\* second colon
AuthTxtBackendUser(line) ==
    LET c1 == FindFrom(line, ":", 1)
        name == Trim(IF c1 = 0 THEN line ELSE SubSeq(line, 1, c1 - 1))
        rest == Trim(IF c1 = 0 THEN <<>> ELSE SubSeq(line, c1 + 1, Len(line)))
        c2 == FindFrom(rest, ":", 1)
        password == Trim(IF c2 = 0 THEN rest ELSE SubSeq(rest, 1, c2 - 1))
        third == Trim(IF c2 = 0 THEN <<>> ELSE SubSeq(rest, c2 + 1, Len(rest)))
    IN  User(name, password, 0, Split(third, ","))

\* AuthTxtBackend::from(serialized).users
AuthTxtBackendFrom(serialized) ==
    LET lines == Lines(serialized)
        kept == SelectSeq([k \in 1..Len(lines) |-> Trim(lines[k])],
                          LAMBDA l : l # <<>>)
    IN  [k \in 1..Len(kept) |-> AuthTxtBackendUser(kept[k])]

TxtIdle ==
    /\ txt = <<>>
    /\ txt_users = <<>>
    /\ tpc = "idle"

\* let backend = AuthTxtBackend::from(&txt);
AuthTxtFrom ==
    /\ tpc = "start"
    /\ txt_users' = AuthTxtBackendFrom(txt)
    /\ tpc' = "parsed"
    /\ UNCHANGED txt
    /\ UNCHANGED <<coordVars, authVars, mapVars, blockVars, arithVars, kvVars>>

(***************************************************************************)
(*                          Specifications                                 *)
(***************************************************************************)

CoordStart == CoordInit /\ AuthIdle /\ MapIdle /\ BlockIdle /\ ArithIdle /\ KvIdle /\ TxtIdle

CoordNext ==
    \/ At
    \/ From
    \/ Decode

CoordSpec == CoordStart /\ [][CoordNext]_vars

AuthStart == AuthInit /\ CoordIdle /\ MapIdle /\ BlockIdle /\ ArithIdle /\ KvIdle /\ TxtIdle

AuthNext ==
    \/ Push
    \/ Remove
    \/ SetName
    \/ SetPassword
    \/ SetLastLogin
    \/ SetPrivileges
    \/ Save
    \/ ReloadUsers
    \/ OpenFile
    \/ OpenMemory

AuthSpec == AuthStart /\ [][AuthNext]_vars

MapStart == MapInit /\ CoordIdle /\ AuthIdle /\ BlockIdle /\ ArithIdle /\ KvIdle /\ TxtIdle

MapNext ==
    \/ SetBlockCall
    \/ RemoveBlockCall
    \/ GetBlockCall
    \/ BlockExistsCall
    \/ BlocksCall

MapSpec == MapStart /\ [][MapNext]_vars

BlockStart == BlockInit /\ CoordIdle /\ AuthIdle /\ MapIdle /\ ArithIdle /\ KvIdle /\ TxtIdle

BlockNext ==
    \/ Deserialize
    \/ ReadFlags
    \/ Serialize
    \/ DeserializeAgain

BlockSpec == BlockStart /\ [][BlockNext]_vars

ArithStart == ArithInit /\ CoordIdle /\ AuthIdle /\ MapIdle /\ BlockIdle /\ KvIdle /\ TxtIdle

ArithNext ==
    \/ Add
    \/ Sub

ArithSpec == ArithStart /\ [][ArithNext]_vars

KvStart == KvInit /\ CoordIdle /\ AuthIdle /\ MapIdle /\ BlockIdle /\ ArithIdle /\ TxtIdle

KvNext ==
    \/ FromText
    \/ Get

KvSpec == KvStart /\ [][KvNext]_vars

\* The texts handed to AuthTxtBackend::from are made of a letter, the field
\* separator, the tag separator, a blank and the line end.
TxtStart ==
    /\ txt \in UNION {[1..n -> {"a", ":", ",", " ", "\n"}] : n \in 0..MaxTxtLen}
    /\ txt_users = <<>>
    /\ tpc = "start"
    /\ CoordIdle /\ AuthIdle /\ MapIdle /\ BlockIdle /\ ArithIdle /\ KvIdle

TxtNext ==
    \/ AuthTxtFrom

TxtSpec == TxtStart /\ [][TxtNext]_vars

(***************************************************************************)
(*                     Claims on HashedCoordinate                          *)
(***************************************************************************)

\* C1: for every coordinate with each axis in [-30920, 30920], encoding it
\* with HashedCoordinate::at and reading it back with x(), y(), z() returns
\* exactly (x, y, z), and none of the three reads panics.
C1_RoundTrip ==
    (cpc = "at_decoded" /\ InBounds(coord)) =>
        /\ ~decoded.x.panic /\ decoded.x.value = coord[1]
        /\ ~decoded.y.panic /\ decoded.y.value = coord[2]
        /\ ~decoded.z.panic /\ decoded.z.value = coord[3]

\* C2: HashedCoordinate::at is collision-free: no other coordinate with all
\* axes in [-30920, 30920] encodes to the address of the encoded coordinate.
C2_CollisionFree ==
    (cpc = "at" /\ hashed.ok) =>
        \A d \in AxisSamples \X AxisSamples \X AxisSamples :
            (InBounds(d) /\ d # coord) =>
                HashedAt(d[1], d[2], d[3]) # hashed

C38_UnitConstantsAgree ==
    (cpc = "from" /\ hashed.ok) =>
        \A d \in Directions :
            LET moved == [i \in 1..3 |-> coord[i] + SpatialUnit(d)[i]]
            IN  /\ HashedFrom(SpatialUnit(d)) = Ok(HashedUnit(d))
                /\ InBounds(moved) =>
                      WrappingAdd(Wide(hashed.value), Wide(HashedUnit(d))).value =
                          Wide(HashedFrom(moved).value)

(***************************************************************************)
(*                     Claims on AuthSqlBackend                           *)
(***************************************************************************)

DistinctNames(us) ==
    \A i, j \in 1..Len(us) : us[i].name = us[j].name => i = j

DupFree(pl) ==
    \A i, j \in 1..Len(pl) : pl[i] = pl[j] => i = j

\* A user list as the set of its users, each with its privilege set.
UserSet(us) ==
    {[name |-> us[i].name, password |-> us[i].password,
      last_login |-> us[i].last_login, privileges |-> Range(us[i].privileges)] :
        i \in 1..Len(us)}

CleanList(us) ==
    DistinctNames(us) /\ \A i \in 1..Len(us) : DupFree(us[i].privileges)

\* C4: whatever the tables held, a successful save of a user list with
\* distinct names and duplicate-free privilege lists followed by reload gives
\* exactly the users of that list, each with the same password, last-login
\* and privilege set.
C4_SaveMatchesMemory ==
    (apc = "synced" /\ CleanList(snap.mem)) =>
        UserSet(users) = UserSet(snap.mem)

C6_SecondSaveNoChange ==
    (snap.from = "synced" /\ apc \in {"saved", "panicked"}) =>
        /\ apc = "saved"
        /\ auth = snap.pre.auth
        /\ user_privileges = snap.pre.privs
        /\ seq = snap.pre.seq

C6_Witness ==
    /\ apc = "saved"
    /\ snap.from = "synced"
    /\ Cardinality(auth) = 2
    /\ Cardinality(user_privileges) >= 2

SamePrivileges(us) ==
    \A i, j \in 1..Len(us) : us[i].privileges = us[j].privileges

FreshScenario ==
    /\ snap.fresh
    /\ CleanList(snap.mem)
    /\ SamePrivileges(snap.mem)

\* C7: from an empty store, after adding users with distinct names that all
\* carry the same duplicate-free privilege list, save succeeds and reload
\* yields exactly those users, each with every one of its privileges.
C7_FreshStoreScenario ==
    /\ (apc = "panicked" => ~FreshScenario)
    /\ (apc = "synced" /\ FreshScenario) =>
          /\ Len(users) = Len(snap.mem)
          /\ UserSet(users) = UserSet(snap.mem)

C7_Witness ==
    /\ apc = "synced"
    /\ FreshScenario
    /\ Len(snap.mem) = 2
    /\ Range(snap.mem[1].privileges) = {"interact", "shout"}
    /\ Len(users) = 2

\* C8: after a save and reload, removing one user from memory, saving and
\* reloading yields exactly the other users, each with its privilege set
\* unchanged; the removed user is absent.
C8_RemoveScenario ==
    /\ (apc = "panicked" => snap.from # "removed")
    /\ (apc = "synced" /\ snap.from = "removed") =>
          /\ Len(users) = Len(snap.base) - 1
          /\ UserSet(users) = UserSet(RemoveAt(snap.base, snap.gone))
          /\ \A k \in 1..Len(users) : users[k].name # snap.base[snap.gone].name

C8_Witness ==
    /\ apc = "synced"
    /\ snap.from = "removed"
    /\ Len(users) = 1
    /\ Range(users[1].privileges) = {"interact", "shout"}

\* C9: a user whose name is in the auth table before a successful save and in
\* the in-memory list during that save has the same id in the auth table
\* after the save.
C9_IdStable ==
    (apc = "saved") =>
        \A r \in snap.pre.auth :
            (\E i \in 1..Len(snap.mem) : snap.mem[i].name = r.name) =>
                \E q \in auth : q.name = r.name /\ q.id = r.id

\* A save that kept one user's row and inserted a row for a new user.
C9_Witness ==
    /\ apc = "saved"
    /\ \E r \in snap.pre.auth : \E q \in auth : q.name = r.name /\ q.id = r.id
    /\ \E q \in auth : \A r \in snap.pre.auth : q.id # r.id

HasDuplicateTag(us) ==
    \E i \in 1..Len(us) : ~DupFree(us[i].privileges)

\* C10: privileges behave as a set in which duplicates collapse: when a user
\* of a list with distinct names has the same tag twice, save succeeds and
\* after reload that user has the tag exactly once.
C10_DuplicatesCollapse ==
    /\ (apc = "panicked" => ~(DistinctNames(snap.mem) /\ HasDuplicateTag(snap.mem)))
    /\ (apc = "synced" /\ DistinctNames(snap.mem)) =>
          \A i \in 1..Len(snap.mem) :
              ~DupFree(snap.mem[i].privileges) =>
                  \E k \in 1..Len(users) :
                      /\ users[k].name = snap.mem[i].name
                      /\ DupFree(users[k].privileges)
                      /\ Range(users[k].privileges) = Range(snap.mem[i].privileges)

(***************************************************************************)
(*                     Claims on SQLite3MapReader                          *)
(***************************************************************************)

\* C11: after a successful set_block(addr, bytes), and until a
\* remove_block(addr) is called, get_block(addr) returns exactly bytes and
\* block_exists(addr) returns Ok(true), whatever was done to other addresses in
\* between (the storage engine answering the read).
C11_GetAfterSet ==
    (mcall.fault = "none" /\ put[mcall.coord] # <<>>) =>
        /\ mcall.op = "get_block" =>
              (mret.kind = "ok" /\ mret.data = put[mcall.coord][1])
        /\ mcall.op = "block_exists" => (mret.kind = "ok" /\ mret.exists)

\* a get_block that returns the payload set earlier while another address
\* was set after it
C11_Witness ==
    /\ mcall.op = "get_block"
    /\ mcall.fault = "none"
    /\ put[mcall.coord] # <<>>
    /\ mret.kind = "ok"
    /\ mret.data = put[mcall.coord][1]
    /\ Len(blocks) >= 2
    /\ blocks[1].pos = mcall.pos
    /\ blocks[2].data # mret.data

\* C12: for an address that was never stored, or was removed, block_exists
\* returns Ok(false) and get_block fails with the not-found error.
C12_AbsentAddress ==
    (mcall.fault = "none" /\ mcall.pos \notin Stored) =>
        /\ mcall.op = "block_exists" => (mret.kind = "ok" /\ ~mret.exists)
        /\ mcall.op = "get_block" => mret.kind = "not_found"

\* C13: blocks() returns every stored address exactly once and no address
\* that is not stored.
C13_BlocksListsStored ==
    (mcall.op = "blocks" /\ mcall.fault = "none") =>
        /\ mret.kind = "ok"
        /\ {mret.list[i] : i \in DOMAIN mret.list} = Stored
        /\ \A i, j \in DOMAIN mret.list : mret.list[i] = mret.list[j] => i = j

\* blocks() listing a store that holds a block at every address the callers
\* use
C13_Witness ==
    /\ mcall.op = "blocks"
    /\ mcall.fault = "none"
    /\ mret.kind = "ok"
    /\ Len(mret.list) = Cardinality(MapCoords)

\* C14: for the address of an in-bounds coordinate c that has no row,
\* get_block returns PartitionNotFound(c), carrying c itself, and does not
\* panic.
C14_NotFoundCarriesCoordinate ==
    (mcall.op = "get_block" /\ mcall.fault = "none" /\ mcall.pos \notin Stored) =>
        mret = PartitionNotFound(mcall.coord)

\* C15: set_block on an address that is stored returns an error, and the
\* data stored at that address stays what it was.
C15_DuplicateSetRejected ==
    [][(mcall'.op = "set_block" /\ mcall'.pos \in Stored) =>
          (mret'.kind = "db_error" /\ blocks' = blocks)]_vars

\* a set_block of other data on a stored address, answered by the engine
C15_Witness ==
    /\ mcall.op = "set_block"
    /\ mcall.fault = "none"
    /\ mcall.held
    /\ mret.kind = "db_error"
    /\ \E i \in DOMAIN blocks : blocks[i].pos = mcall.pos /\ blocks[i].data # mcall.data

\* C16: remove_block on an address that is not stored returns Ok(()) and
\* leaves every stored block as it was.
C16_RemoveAbsent ==
    [][(mcall'.op = "remove_block" /\ mcall'.fault = "none" /\ mcall'.pos \notin Stored) =>
          (mret' = Unit /\ blocks' = blocks)]_vars

\* a remove_block of an address without a row while other blocks are stored
C16_Witness ==
    /\ mcall.op = "remove_block"
    /\ mcall.fault = "none"
    /\ ~mcall.held
    /\ mret = Unit
    /\ blocks # <<>>

\* C17: get_block returns PartitionNotFound only when no row has the
\* requested address; when the storage engine fails while the row is fetched
\* it returns a database error.
C17_NotFoundOnlyWhenAbsent ==
    mcall.op = "get_block" =>
        /\ mret.kind = "not_found" => mcall.pos \notin Stored
        /\ mcall.fault = "step" => mret.kind = "db_error"

\* C37: set_block and remove_block on an address, whether they succeed or
\* fail, leave the rows of every other address (its presence and its data) as
\* they were; block_exists, get_block and blocks leave the table as it was.
C37_FrameOfStoreCalls ==
    [][/\ mcall'.op \in {"set_block", "remove_block"} =>
             \A p \in {blocks[i].pos : i \in DOMAIN blocks} \cup
                       {blocks'[i].pos : i \in DOMAIN blocks'} :
                 p # mcall'.pos => Matching(blocks', p) = Matching(blocks, p)
       /\ mcall'.op \in {"get_block", "block_exists", "blocks"} =>
             blocks' = blocks]_vars

\* a remove_block that deleted the row of its address next to the row of
\* another address
C37_Witness ==
    /\ mcall.op = "remove_block"
    /\ mcall.held
    /\ mret.kind = "ok"
    /\ mcall.pos \notin Stored
    /\ Stored # {}

(***************************************************************************)
(*                     Claims on block payloads                           *)
(***************************************************************************)

\* bit k of byte b
Bit(b, k) == (b \div (2 ^ k)) % 2 = 1

\* C18: deserialize_block_data dispatches on the first byte: a payload whose
\* first byte is not 29 yields an error and no decoded block; a payload whose
\* first byte is 29, followed by at least 13 bytes, is decoded as a version-29
\* block holding those 13 bytes.
C18_DispatchOnVersion ==
    (bpc # "start" /\ Len(payload) >= 1) =>
        /\ payload[1] # 29 => mapblock = [kind |-> "err", header_bytes |-> <<>>]
        /\ (payload[1] = 29 /\ Len(payload) >= 14) =>
              mapblock = [kind |-> "ok", header_bytes |-> SubSeq(payload, 2, 14)]

\* a decoded version-29 payload that carries bytes after its header
C18_Witness ==
    /\ bpc = "deserialized"
    /\ Len(payload) > 14
    /\ payload[1] = 29
    /\ mapblock.kind = "ok"
    /\ Len(mapblock.header_bytes) = 13

\* C19: a payload too short to decode (empty, or version 29 with fewer than
\* 13 bytes after the version byte) makes deserialize_block_data return a
\* corrupt-data error, never panic.
C19_ShortPayloadIsError ==
    (bpc # "start" /\ (Len(payload) = 0 \/ (payload[1] = 29 /\ Len(payload) < 14))) =>
        mapblock.kind = "corrupt"

\* C20: on a decoded version-29 block, underground, day_night_differs,
\* light_dirty and was_generated are bits 0, 1, 2 and 3 of the header byte of
\* index 2.
C20_FlagBits ==
    bpc = "flags" =>
        LET b == payload[4]
        IN  /\ flags.underground = Bit(b, 0)
            /\ flags.day_night_differs = Bit(b, 1)
            /\ flags.light_dirty = Bit(b, 2)
            /\ flags.was_generated = Bit(b, 3)

\* flags read from a header whose flag byte sets some of the four bits,
\* clears others, and differs from its neighbours
C20_Witness ==
    /\ bpc = "flags"
    /\ payload[4] = 170
    /\ payload[3] = 255
    /\ flags = [underground |-> FALSE, day_night_differs |-> TRUE,
                light_dirty |-> FALSE, was_generated |-> TRUE]

\* C21: serialize round-trips: for every decodable version-29 payload,
\* decoding it, calling serialize() and decoding the bytes it produced succeeds
\* and gives a block with the same four flags.
C21_SerializeRoundTrip ==
    bpc = "redecoded" =>
        /\ mapblock.kind = "ok"
        /\ Underground(mapblock) = flags.underground
        /\ DayNightDiffers(mapblock) = flags.day_night_differs
        /\ LightDirty(mapblock) = flags.light_dirty
        /\ WasGenerated(mapblock) = flags.was_generated

\* trailing bytes put after the version byte and the 13 header bytes
Trailers == {<<>>, <<0>>, <<8>>, <<29, 7>>, <<1, 2, 3>>}

\* C36: the version-29 decoder uses only the 13 header bytes that follow the
\* version byte: a payload with version byte 29 and the payload made of its
\* first 14 bytes and any other trailing bytes both decode, to blocks whose
\* accessors (underground, day_night_differs, light_dirty, was_generated,
\* light_complete, timestamp) return the same values.
C36_TrailingBytesIgnored ==
    (/\ bpc \in {"deserialized", "flags"}
     /\ Len(payload) >= 14
     /\ payload[1] = 29) =>
        \A tail \in Trailers :
            \E other \in {DeserializeBlockData(SubSeq(payload, 1, 14) \o tail)} :
                /\ mapblock.kind = "ok"
                /\ other.kind = "ok"
                /\ Underground(other) = Underground(mapblock)
                /\ DayNightDiffers(other) = DayNightDiffers(mapblock)
                /\ LightDirty(other) = LightDirty(mapblock)
                /\ WasGenerated(other) = WasGenerated(mapblock)
                /\ Timestamp(other) = Timestamp(mapblock)
                /\ \A bank \in LightBanks, direction \in MapCoords :
                      LightComplete(other, bank, direction) =
                          LightComplete(mapblock, bank, direction)

\* a decoded version-29 payload with a set flag bit and a trailing byte that
\* differs from the trailers it is compared with
C36_Witness ==
    /\ bpc = "flags"
    /\ Len(payload) = 15
    /\ payload[1] = 29
    /\ payload[15] = 255
    /\ flags.was_generated
    /\ ~flags.underground

(***************************************************************************)
(*               Further claims on AuthSqlBackend                          *)
(***************************************************************************)

\* the list us holds exactly the rows of authT, each with the privileges
\* privT stores under its id
LoadedFrom(us, authT, privT) ==
    /\ Len(us) = Cardinality(authT)
    /\ \A r \in authT : \E i \in 1..Len(us) :
          /\ us[i].name = r.name
          /\ us[i].password = r.password
          /\ us[i].last_login = r.last_login
          /\ DupFree(us[i].privileges)
          /\ Range(us[i].privileges) = {row.privilege : row \in {q \in privT : q.id = r.id}}

\* C22: reload is authoritative from storage: after reload the in-memory list
\* is the content of the tables (every stored user with its stored password,
\* last-login and privileges), whatever unsaved edits the list carried, and
\* reload leaves the tables as they were.
C22_ReloadAuthoritative ==
    [][apc' \in {"loaded", "synced"} =>
          /\ LoadedFrom(users', auth, user_privileges)
          /\ auth' = auth
          /\ user_privileges' = user_privileges
          /\ seq' = seq]_vars

\* a reload that discarded an edited list and loaded two users with
\* privileges
C22_Witness ==
    /\ apc = "loaded"
    /\ snap.from = "edited"
    /\ Len(users) = 2
    /\ \E i \in 1..2 : users[i].privileges # <<>> /\ users[i].password # ""

\* the user_privileges rows whose id is in no auth row
Orphans == {row \in user_privileges : \A r \in auth : r.id # row.id}

\* C23: a user_privileges row whose id matches no auth row is dropped
\* silently during load: reload completes, and every privilege of an
\* in-memory user is one stored under that user's own id.
C23_OrphanDropped ==
    (apc \in {"loaded", "synced"} /\ Orphans # {}) =>
        /\ Len(users) = Cardinality(auth)
        /\ \A i \in 1..Len(users) : \A p \in Range(users[i].privileges) :
              \E r \in auth : r.name = users[i].name /\ Priv(r.id, p) \in user_privileges

\* a list reloaded next to an orphaned privilege that no user carries
C23_Witness ==
    /\ apc \in {"loaded", "synced"}
    /\ edits > 0
    /\ users # <<>>
    /\ \E row \in Orphans :
          \A i \in 1..Len(users) : row.privilege \notin Range(users[i].privileges)

\* C24: open_memory yields a store whose auth and user_privileges tables are
\* empty and whose in-memory user list is empty.
C24_OpenMemoryEmpty ==
    apc = "memory" =>
        /\ auth = {}
        /\ user_privileges = {}
        /\ users = <<>>

\* a store opened in memory after the caller had edited another one
C24_Witness ==
    /\ apc = "memory"
    /\ edits > 0
    /\ auth = {}
    /\ users = <<>>

\* C25: save leaves the in-memory list unchanged: after save has returned the
\* list holds the same users in the same order with the same names,
\* passwords, last-logins and privilege lists as when it was called.
C25_SaveKeepsList ==
    apc = "saved" => users = snap.mem

\* a save that changed the tables, of a list a reload would not give back
C25_Witness ==
    /\ apc = "saved"
    /\ users = snap.mem
    /\ auth # snap.pre.auth
    /\ users # Reload(auth, user_privileges)

\* The positions i at which the saved list differs from the list loaded from
\* the tables the save found, in the name of user i only, the new name being
\* in no stored row.
Renamed ==
    LET base == Reload(snap.pre.auth, snap.pre.privs)
    IN  {i \in 1..Len(base) :
            /\ Len(snap.mem) = Len(base)
            /\ snap.mem = [base EXCEPT ![i].name = snap.mem[i].name]
            /\ snap.mem[i].name # base[i].name
            /\ snap.mem[i].name \notin {r.name : r \in snap.pre.auth}}

\* C26: a rename behaves as delete-old plus insert-new: after a stored user's
\* name is changed in memory to a name not in the store and save is called,
\* auth has no row of the old name and exactly one row of the new name, whose
\* id differs from the id the old row had.
C26_RenameIsDeleteInsert ==
    (apc \in {"saved", "panicked"}) =>
        \A i \in Renamed :
            LET old == Reload(snap.pre.auth, snap.pre.privs)[i].name
                new == snap.mem[i].name
            IN  /\ apc = "saved"
                /\ \A r \in auth : r.name # old
                /\ Cardinality({r \in auth : r.name = new}) = 1
                /\ \A r \in auth : \A q \in snap.pre.auth :
                      (r.name = new /\ q.name = old) => r.id # q.id

\* a saved rename of a user who has privileges, next to another stored user
C26_Witness ==
    /\ apc = "saved"
    /\ Renamed # {}
    /\ \E i \in Renamed : snap.mem[i].privileges # <<>>
    /\ Cardinality(auth) = 2
    /\ Cardinality(snap.pre.auth) = 2

\* For the last save: the table after its step-4 deletions (kept), the ids of
\* the in-memory users (ids), and the pairs of in-memory users whose privilege
\* is in no row of kept (fresh).
Step5 ==
    LET us == snap.mem
        tx0 == [auth |-> snap.pre.auth, privs |-> snap.pre.privs, seq |-> snap.pre.seq,
                failed |-> FALSE, stmts |-> 0, log |-> <<>>]
        id_table0 == IdTable(snap.pre.auth)
        st2 == InsertNew(UpdateExisting(tx0, us, id_table0), us, id_table0)
        tx3 == DeletePrivileges(st2.tx, us, NameTable(id_table0))
    IN  [kept |-> tx3.privs,
         ids |-> {st2.id_table[us[i].name] : i \in 1..Len(us)},
         fresh |-> UNION {{Priv(st2.id_table[us[i].name], p) :
                              p \in {q \in Range(us[i].privileges) :
                                        \A row \in tx3.privs : row.privilege # q}} :
                          i \in 1..Len(us)}]

\* C29: step 5 of save uses a global existence check: a (id, privilege) pair
\* of an in-memory user is inserted exactly when the privilege is in no row of
\* user_privileges, of any user, after the step-4 deletions; a privilege
\* stored for one user is not inserted for another who has it in memory.
C29_GlobalExistenceCheck ==
    apc = "saved" =>
        \E st \in {Step5} :
            {row \in user_privileges : row.id \in st.ids} =
                {row \in st.kept : row.id \in st.ids} \cup st.fresh

\* a save after which a user lists a privilege in memory that is stored for
\* another user only, next to a pair the save did insert
C29_Witness ==
    /\ apc = "saved"
    /\ \E st \in {Step5} :
          /\ st.fresh # {}
          /\ \E i \in 1..Len(users) : \E p \in Range(users[i].privileges) :
                /\ \E row \in st.kept : row.privilege = p
                /\ \A r \in auth :
                      r.name = users[i].name => Priv(r.id, p) \notin user_privileges

\* C30: save touches no row that already matches memory: a save called when
\* the tables equal the in-memory list, as after save and reload, executes no
\* INSERT, UPDATE or DELETE statement on auth or user_privileges.
C30_NoStatementWhenInSync ==
    (apc = "saved" /\ snap.from = "synced") => snap.stmts = 0

\* The stored pairs whose id has a row in auth when the last save was called,
\* the name of that row being the name of in-memory user i.
OwnedBefore(i) ==
    {row \in snap.pre.privs :
        \E r \in snap.pre.auth : r.id = row.id /\ r.name = snap.mem[i].name}

\* C31: step 4 of save deletes exactly the stored (id, privilege) pairs whose
\* owning user is in memory with a privilege list that lacks the privilege:
\* after a successful save, for every user that was in the store and is in
\* memory, a pair stored before is still stored exactly when the user lists
\* its privilege, and every privilege stored under the user's id is one the
\* user lists; a pair whose id has no row in auth is not deleted.
C31_PrivilegeDeletions ==
    apc = "saved" =>
        /\ \A i \in 1..Len(snap.mem) :
              /\ \A row \in OwnedBefore(i) :
                    row \in user_privileges <=>
                        row.privilege \in Range(snap.mem[i].privileges)
              /\ \A r \in snap.pre.auth : \A row \in user_privileges :
                    (r.name = snap.mem[i].name /\ row.id = r.id) =>
                        row.privilege \in Range(snap.mem[i].privileges)
        /\ \A row \in snap.pre.privs :
              (\A r \in snap.pre.auth : r.id # row.id) => row \in user_privileges

\* C32: after every successful save, auth holds a row for a name exactly when
\* an in-memory user has that name, and no user_privileges row refers to an
\* id that is absent from auth, provided no such row existed before the save.
C32_RowsMatchNames ==
    (/\ apc = "saved"
     /\ \A row \in snap.pre.privs : \E r \in snap.pre.auth : r.id = row.id) =>
        /\ {r.name : r \in auth} = {users[i].name : i \in 1..Len(users)}
        /\ Orphans = {}

\* C33: after a successful save of a list with distinct names, every
\* in-memory user has exactly one row in auth, with the user's password and
\* last-login; a user whose name was stored keeps the id of its row (updated
\* in place), and a user of a new name has a row with an id that no row had
\* and that AUTOINCREMENT had not handed out before.
C33_RowsCarryMemory ==
    (apc = "saved" /\ DistinctNames(snap.mem)) =>
        \A i \in 1..Len(snap.mem) :
            /\ Cardinality({r \in auth : r.name = snap.mem[i].name}) = 1
            /\ \A r \in auth : r.name = snap.mem[i].name =>
                  /\ r.password = snap.mem[i].password
                  /\ r.last_login = snap.mem[i].last_login
                  /\ \A q \in snap.pre.auth : q.name = r.name => q.id = r.id
                  /\ (\A q \in snap.pre.auth : q.name # r.name) =>
                        /\ r.id > snap.pre.seq
                        /\ \A q \in snap.pre.auth : q.id # r.id

\* a save that changed the password and last-login of a stored user in place
\* and inserted a row for a user of a new name
C33_Witness ==
    /\ apc = "saved"
    /\ DistinctNames(snap.mem)
    /\ Len(snap.mem) = 2
    /\ \E q \in snap.pre.auth : \E r \in auth :
          /\ q.id = r.id /\ q.name = r.name
          /\ q.password # r.password /\ q.last_login # r.last_login
    /\ \E r \in auth : \A q \in snap.pre.auth : q.name # r.name /\ q.id # r.id

\* the place of a statement in the order of save()
StatementRank(stmt) ==
    CASE stmt = "BEGIN" -> 0
      [] stmt = "UPDATE auth" -> 1
      [] stmt = "INSERT auth" -> 2
      [] stmt = "DELETE user_privileges" -> 3
      [] stmt = "INSERT user_privileges" -> 4
      [] stmt = "DELETE auth" -> 5
      [] stmt = "COMMIT" -> 6

\* C34: every write of a save happens inside one transaction and in a fixed
\* order: the statements of a save start with the one BEGIN, then come the
\* updates of existing users, the inserts of new users, the privilege
\* deletions, the privilege insertions and the user deletions in that order,
\* and a save that returns ends with the one COMMIT; a save that fails issues
\* no COMMIT. The rows inserted into and deleted from auth are as many as the
\* statements listed for them.
C34_OneTransactionInOrder ==
    apc \in {"saved", "panicked"} =>
        LET log == snap.log
        IN  /\ log[1] = "BEGIN"
            /\ \A k \in 2..Len(log) : log[k] # "BEGIN"
            /\ \A k \in 1..(Len(log) - 1) :
                  /\ log[k] # "COMMIT"
                  /\ StatementRank(log[k]) <= StatementRank(log[k + 1])
            /\ (log[Len(log)] = "COMMIT") <=> (apc = "saved")
            /\ Cardinality({k \in 1..Len(log) : log[k] = "INSERT auth"}) =
                  Cardinality({r \in snap.tx.auth : r.id > snap.pre.seq})
            /\ apc = "saved" =>
                  Cardinality({k \in 1..Len(log) : log[k] = "DELETE auth"}) =
                     Cardinality({r \in snap.pre.auth : \A q \in auth : q.id # r.id})

\* a save that returned after statements of all five kinds
C34_Witness ==
    /\ apc = "saved"
    /\ {"UPDATE auth", "INSERT auth", "DELETE user_privileges",
        "INSERT user_privileges", "DELETE auth"} \subseteq Range(snap.log)

\* C35: after a stored user's name is changed in memory to a name not in the
\* store and save and then reload are called, the user under the new name has
\* the privilege set it had in memory before the save.
C35_RenameKeepsPrivileges ==
    [][(apc = "saved" /\ apc' = "synced") =>
          \A i \in Renamed : \E k \in 1..Len(users') :
              /\ users'[k].name = snap.mem[i].name
              /\ Range(users'[k].privileges) = Range(snap.mem[i].privileges)]_vars

(***************************************************************************)
(*               Claims on Add / Sub for HashedCoordinate                  *)
(***************************************************************************)

\* d3 * 2^48 + d2 * 2^32 + d1 * 2^16 + d0 = 0
IsZero(d3, d2, d1, d0) ==
    LET c1 == d1 + d0 \div WORD
        c2 == d2 + c1 \div WORD
    IN  /\ d0 % WORD = 0
        /\ c1 % WORD = 0
        /\ c2 % WORD = 0
        /\ d3 + c2 \div WORD = 0

\* r is in the range of i64 and differs from a + sign * b by a multiple of
\* 2^64
WrapsTo(a, b, sign, r) ==
    /\ r.w3 >= I16_MIN /\ r.w3 <= I16_MAX
    /\ \A w \in {r.w2, r.w1, r.w0} : w >= 0 /\ w < WORD
    /\ \E k \in {-1, 0, 1} :
          IsZero(a.w3 + sign * b.w3 - r.w3 - k * WORD, a.w2 + sign * b.w2 - r.w2,
                 a.w1 + sign * b.w1 - r.w1, a.w0 + sign * b.w0 - r.w0)

\* C27: adding or subtracting two HashedCoordinate values yields the wrapping
\* 64-bit sum or difference of their packed values, taken modulo 2^64 into the
\* signed range, and never fails on overflow.
C27_WrappingArithmetic ==
    /\ kpc = "added" => (~sum.panic /\ WrapsTo(lhs, rhs, 1, sum.value))
    /\ kpc = "subtracted" => (~sum.panic /\ WrapsTo(lhs, rhs, -1, sum.value))

\* i64::MAX + 1 wraps to i64::MIN
C27_Witness ==
    /\ kpc = "added"
    /\ lhs = I64(I16_MAX, WORD - 1, WORD - 1, WORD - 1)
    /\ rhs = I64(0, 0, 0, 1)
    /\ sum = [panic |-> FALSE, value |-> I64(I16_MIN, 0, 0, 0)]

(***************************************************************************)
(*                     Claims on KeyValue                                  *)
(***************************************************************************)

\* s without its leading and trailing blanks
Strip(s) ==
    LET ink == {i \in 1..Len(s) : s[i] # " "}
    IN  IF ink = {} THEN <<>>
        ELSE SubSeq(s, CHOOSE i \in ink : \A j \in ink : i <= j,
                       CHOOSE i \in ink : \A j \in ink : j <= i)

\* the part of s before the first ch, and the part after it
Before(s, ch) ==
    SubSeq(s, 1, (CHOOSE i \in 1..(Len(s) + 1) :
                     /\ i = Len(s) + 1 \/ s[i] = ch
                     /\ \A j \in 1..(i - 1) : s[j] # ch) - 1)
After(s, ch) == SubSeq(s, Len(Before(s, ch)) + 2, Len(s))

\* the positions at which a non-blank line of text starts
LineStarts ==
    {b \in 1..Len(text) :
        /\ b = 1 \/ text[b - 1] = "\n"
        /\ Strip(Before(SubSeq(text, b, Len(text)), "\n")) # <<>>}

\* the entry the line starting at b stands for
EntryAt(b) ==
    LET line == Strip(Before(SubSeq(text, b, Len(text)), "\n"))
    IN  <<Strip(Before(line, "=")), Strip(Before(Strip(After(line, "=")), "-"))>>

\* C28: KeyValue::from keeps one entry per non-blank line in input order, the
\* key trimmed and the value the trimmed text after the first '=' cut at the
\* first '-'; entries of the same key are all kept, and get(key) returns the
\* value of the first of them.
C28_KeyValueFrom ==
    vpc \in {"parsed", "got"} =>
        /\ Len(kv) = Cardinality(LineStarts)
        /\ \A b \in LineStarts :
              kv[Cardinality({c \in LineStarts : c <= b})] = EntryAt(b)
        /\ vpc = "got" =>
              LET hits == {i \in 1..Len(kv) : kv[i][1] = got.key}
              IN  IF hits = {}
                  THEN ~got.ret.some
                  ELSE /\ got.ret.some
                       /\ got.ret.value = kv[CHOOSE i \in hits : \A j \in hits : i <= j][2]

\* a get on a text with two entries of the key that differ in their value
C28_Witness ==
    /\ vpc = "got"
    /\ Len(kv) = 2
    /\ kv[1][1] = got.key
    /\ kv[2][1] = got.key
    /\ kv[1][2] # kv[2][2]
    /\ got.ret = Some(kv[1][2])

(***************************************************************************)
(*                     Claims on AuthTxtBackend                            *)
(***************************************************************************)

\* the positions at which a non-blank line of txt starts
TxtLineStarts ==
    {b \in 1..Len(txt) :
        /\ b = 1 \/ txt[b - 1] = "\n"
        /\ Strip(Before(SubSeq(txt, b, Len(txt)), "\n")) # <<>>}

\* the tags of a field: none for the empty field, else the pieces between its
\* commas
CommaTags(s) ==
    LET commas == {i \in 1..Len(s) : s[i] = ","}
        n == Cardinality(commas) + 1
        at(k) == IF k = 0 THEN 0
                 ELSE IF k = n THEN Len(s) + 1
                 ELSE CHOOSE i \in commas : Cardinality({j \in commas : j < i}) = k - 1
    IN  IF s = <<>> THEN <<>>
        ELSE [k \in 1..n |-> SubSeq(s, at(k - 1) + 1, at(k) - 1)]

\* the fields of the line starting at b, each without the blanks around it:
\* the first, the second, and what follows the second colon
TxtFieldsAt(b) ==
    LET line == Strip(Before(SubSeq(txt, b, Len(txt)), "\n"))
        rest == After(line, ":")
    IN  [name |-> Strip(Before(line, ":")),
         password |-> Strip(Before(rest, ":")),
         third |-> Strip(After(rest, ":"))]

\* C39: AuthTxtBackend::from yields one user per non-blank line
\* 'name:password:privileges', in line order, whose name and password are the
\* first two colon-separated fields and whose privilege list is exactly the
\* sequence of comma-separated tags of the third field, the empty list when
\* that field is empty or missing.
C39_OneUserPerLine ==
    tpc = "parsed" =>
        /\ Len(txt_users) = Cardinality(TxtLineStarts)
        /\ \A b \in TxtLineStarts :
              \E user \in {txt_users[Cardinality({c \in TxtLineStarts : c <= b})]} :
              \E f \in {TxtFieldsAt(b)} :
                  /\ user.name = f.name
                  /\ user.password = f.password
                  /\ user.privileges = CommaTags(f.third)

====
